---- MODULE Spec2Model ----
(***************************************************************************)
(* Model of the stream-verification screenshot debugger:                   *)
(*   JSONParser (parse / filter / statistics / export),                    *)
(*   DiscrepancyManager (classification, list reconciliation),             *)
(*   ScreenshotViewer (filtered view, navigation, pending displays),       *)
(*   S3Client (image cache),                                               *)
(*   and the handlers of main.js that drive them.                          *)
(*                                                                         *)
(* Encoding of JavaScript values                                           *)
(*   object     a function whose DOMAIN is the set of keys that are        *)
(*              present; reading an absent key yields undefined            *)
(*   undefined  an absent key; as a free-standing value, <<>>              *)
(*   null       <<>> ; a non-null value v of a nullable field is <<v>>     *)
(*   array      a sequence                                                 *)
(***************************************************************************)
EXTENDS Integers, Sequences, FiniteSets, TLC

\* ------------------------------------------------------------------ bounds
MaxResults == 2     \* longest results array of a loaded document
MaxCount   == 2     \* largest number_of_games / game_count of a frame
MaxGames   == 2     \* longest games / db_sessions list of a frame
MaxList    == 2     \* longest list handed to compareGameLists
MaxPending == 2     \* most calls of displayCurrent awaiting their screenshot
MaxFetches == 2     \* most other calls of fetchImage awaiting the network
MaxUrls    == 3     \* most blob URLs created in one run

VARIABLES
    \* JSONParser
    analysisData, sessionMetadata, results, discrepancyCount,
    \* ScreenshotViewer
    viewerResults, filteredResults, currentIndex, filterCriteria,
    applyFiltersReturn,
    \* the value returned by the most recent call of jumpTo
    jumpToReturn,
    \* DiscrepancyManager: currentResult, and the records handed to
    \* renderDiscrepancyAlert
    currentResult, discrepancies,
    \* main.js: appState.jsonLoaded, and the error caught by the most recent
    \* load (null when it succeeded)
    jsonLoaded, loadError,
    \* the raw results entry handed to parseResult and analyzeResult directly
    frameInput,
    \* a call of compareGameLists and the same call with the lists swapped
    cmpArgs, cmpResult, cmpSwapped,
    \* ScreenshotViewer: the calls of displayCurrent that await their
    \* screenshot, in the order they were issued, and what the canvas shows
    pendingDisplays, canvas,
    \* S3Client: imageCache; the blob URLs created and not revoked; the number
    \* of blob URLs created so far; the calls of fetchImage that await the
    \* network; the outcome of the most recently settled call of fetchImage
    imageCache, liveUrls, urlCount, fetches, fetchReturn

parserVars == <<analysisData, sessionMetadata, results, discrepancyCount>>
viewerVars == <<viewerResults, filteredResults, currentIndex, filterCriteria,
                applyFiltersReturn, jumpToReturn>>
appVars == <<jsonLoaded, loadError>>
managerVars == <<currentResult, discrepancies>>
cmpVars == <<cmpArgs, cmpResult, cmpSwapped>>
displayVars == <<pendingDisplays, canvas>>
imageVars == <<imageCache, liveUrls, urlCount, fetches, fetchReturn>>
vars == <<parserVars, viewerVars, managerVars, appVars, frameInput, cmpVars,
          displayVars, imageVars>>

\* ------------------------------------------------------- JavaScript values
null == <<>>
undefined == <<>>

\* o.k as a free-standing value: <<v>>, or undefined
Arg(o, k) == IF k \in DOMAIN o THEN <<o[k]>> ELSE undefined

\* "to: o.from" in an object literal
Prop(o, from, to) == IF from \in DOMAIN o THEN to :> o[from] ELSE <<>>

\* o.k || 0, for a number
OrZero(o, k) == IF k \in DOMAIN o /\ o[k] # 0 THEN o[k] ELSE 0

\* o.k || false, for a boolean
OrFalse(o, k) == k \in DOMAIN o /\ o[k]

\* o.k || null, for a string
OrNull(o, k) == IF k \in DOMAIN o /\ o[k] # "" THEN <<o[k]>> ELSE null

\* o.k || d, for a string
OrString(o, k, d) == IF k \in DOMAIN o /\ o[k] # "" THEN o[k] ELSE d

\* o.k || [], for an array
OrEmpty(o, k) == IF k \in DOMAIN o THEN o[k] ELSE <<>>

\* truthiness of a boolean-or-undefined value
Truthy(v) == v # undefined /\ v[1]

\* a || b
JsOr(a, b) == IF Truthy(a) THEN a ELSE b

\* array.map(f)
Map(f(_), s) == [i \in 1..Len(s) |-> f(s[i])]

\* array.filter(p)
Filter(p(_), s) == SelectSeq(s, p)

\* the set of elements of an array (new Set(array))
SetOf(s) == {s[i] : i \in 1..Len(s)}

\* all sequences over S of length at most n
SeqsUpTo(S, n) == UNION {[1..k -> S] : k \in 0..n}

FlagNames == {"ml_vs_postprocessing", "postprocessing_vs_db",
              "missing_in_db", "extra_in_db"}

\* ---------------------------------------------------------------- JSONParser
parseScreenshot(screenshot) ==
    IF screenshot = undefined THEN null
    ELSE LET s == screenshot[1] IN
         <<Prop(s, "filename", "filename") @@ Prop(s, "s3_key", "s3Key")
           @@ Prop(s, "timestamp", "timestamp")
           @@ [url |-> OrNull(s, "url"), cacheKey |-> OrNull(s, "cache_key")]>>

parseMLGame(game) ==
    Prop(game, "class", "class") @@ Prop(game, "confidence", "confidence")
    @@ [box |-> IF "box" \in DOMAIN game THEN <<game.box>> ELSE null]

parseMLInference(mlInference) ==
    IF mlInference = undefined THEN null
    ELSE LET m == mlInference[1] IN
         <<[games |-> Map(parseMLGame, OrEmpty(m, "games")),
            numberOfGames |-> OrZero(m, "number_of_games"),
            latencyMs |-> OrZero(m, "latency_ms"),
            isUniformFrame |-> OrFalse(m, "is_uniform_frame"),
            error |-> OrNull(m, "error")]>>

parsePostGame(game) ==
    Prop(game, "game_id", "gameId")
    @@ Prop(game, "game_session_id", "gameSessionId")

parsePostProcessed(postProcessed) ==
    IF postProcessed = undefined THEN null
    ELSE LET p == postProcessed[1] IN
         <<[games |-> Map(parsePostGame, OrEmpty(p, "games")),
            gameCount |-> OrZero(p, "game_count"),
            eventType |-> OrString(p, "event_type", "UNKNOWN"),
            appliedThreshold |-> OrFalse(p, "applied_threshold"),
            slidingWindowState |-> OrEmpty(p, "sliding_window_state"),
            error |-> OrNull(p, "error")]>>

\* Mutant of parseDBSession: matches_screenshot is defaulted with || false
parseDBSession_matchesOrFalse(session) ==
    Prop(session, "game_session_id", "gameSessionId")
    @@ Prop(session, "game_identifier", "gameIdentifier")
    @@ (IF "game_name" \in DOMAIN session /\ session.game_name # ""
        THEN "gameName" :> session.game_name
        ELSE Prop(session, "game_identifier", "gameName"))
    @@ Prop(session, "start_time", "startTime")
    @@ Prop(session, "end_time", "endTime")
    @@ [trueAirtime |-> OrZero(session, "true_airtime"),
        matchesScreenshot |-> OrFalse(session, "matches_screenshot")]

parseDBSession(session) ==
    Prop(session, "game_session_id", "gameSessionId")
    @@ Prop(session, "game_identifier", "gameIdentifier")
    @@ (IF "game_name" \in DOMAIN session /\ session.game_name # ""
        THEN "gameName" :> session.game_name
        ELSE Prop(session, "game_identifier", "gameName"))
    @@ Prop(session, "start_time", "startTime")
    @@ Prop(session, "end_time", "endTime")
    @@ [trueAirtime |-> OrZero(session, "true_airtime"),
        matchesScreenshot |->
            ~("matches_screenshot" \in DOMAIN session
              /\ session.matches_screenshot = FALSE)]

parseDBSessions(dbSessions) ==
    IF dbSessions = undefined THEN <<>>
    ELSE Map(parseDBSession, dbSessions[1])

parseDBGameCount(count) ==
    Prop(count, "timestamp", "timestamp")
    @@ Prop(count, "game_session_id", "gameSessionId")
    @@ Prop(count, "game_identifier", "gameIdentifier")

parseDBGameCounts(dbGameCounts) ==
    IF dbGameCounts = undefined THEN <<>>
    ELSE Map(parseDBGameCount, dbGameCounts[1])

\* Mutant of hasAnyDiscrepancy: the first flag is left out of the disjunction
hasAnyDiscrepancy_withoutMlVsPost(flags) ==
    IF flags = undefined THEN <<FALSE>>
    ELSE LET f == flags[1] IN
         JsOr(Arg(f, "postprocessing_vs_db"),
              JsOr(Arg(f, "missing_in_db"), Arg(f, "extra_in_db")))

\* the value returned is true, false or undefined: a || b || c || d is the
\* first truthy operand, or else the last one
hasAnyDiscrepancy(flags) ==
    IF flags = undefined THEN <<FALSE>>
    ELSE LET f == flags[1] IN
         JsOr(Arg(f, "ml_vs_postprocessing"),
              JsOr(Arg(f, "postprocessing_vs_db"),
                   JsOr(Arg(f, "missing_in_db"), Arg(f, "extra_in_db"))))

parseResult(result) ==
    LET h == hasAnyDiscrepancy(Arg(result, "discrepancy_flags")) IN
    Prop(result, "index", "index")
    @@ [screenshot |-> parseScreenshot(Arg(result, "screenshot")),
        mlInference |-> parseMLInference(Arg(result, "ml_inference")),
        postProcessed |-> parsePostProcessed(Arg(result, "post_processed")),
        dbSessions |-> parseDBSessions(Arg(result, "db_sessions")),
        dbGameCounts |-> parseDBGameCounts(Arg(result, "db_game_counts")),
        discrepancyFlags |-> OrEmpty(result, "discrepancy_flags")]
    @@ (IF h = undefined THEN <<>> ELSE "hasDiscrepancy" :> h[1])

\* result.discrepancyFlags.<name>, as a condition
Flag(result, name) ==
    name \in DOMAIN result.discrepancyFlags /\ result.discrepancyFlags[name]

\* result.hasDiscrepancy, as a condition
HasDiscrepancy(result) ==
    "hasDiscrepancy" \in DOMAIN result /\ result.hasDiscrepancy

\* Missing or empty session_id, missing or non-array results (the key
\* results holds arrays only): validateAndParse throws before it assigns
\* anything
ValidDocument(data) ==
    /\ "session_id" \in DOMAIN data /\ data.session_id # ""
    /\ "results" \in DOMAIN data

Metadata(data) ==
    [sessionId |-> data.session_id,
     platform |-> OrString(data, "platform", "unknown"),
     channel |-> OrString(data, "channel", "unknown"),
     date |-> OrString(data, "date", "unknown"),
     startTime |-> OrNull(data, "start_time"),
     endTime |-> OrNull(data, "end_time"),
     analyzedAt |-> OrNull(data, "analyzed_at"),
     total |-> IF "total" \in DOMAIN data /\ data.total # 0
               THEN data.total ELSE Len(data.results)]

\* this.results.filter(r => r.hasDiscrepancy).length
CountDiscrepancies(rs) == Len(Filter(HasDiscrepancy, rs))

\* Mutant of PassesFilter: the criteria that are set combine with OR
PassesFilter_anyCriterion(result, criteria) ==
    \/ criteria = [k \in DOMAIN criteria |-> FALSE]
    \/ criteria.onlyDiscrepancies /\ HasDiscrepancy(result)
    \/ criteria.mlVsPost /\ Flag(result, "ml_vs_postprocessing")
    \/ criteria.postVsDb /\ Flag(result, "postprocessing_vs_db")
    \/ criteria.missingInDb /\ Flag(result, "missing_in_db")
    \/ criteria.extraInDb /\ Flag(result, "extra_in_db")

\* the predicate of filterResults: one early "return false" per criterion
PassesFilter(result, criteria) ==
    IF criteria.onlyDiscrepancies /\ ~HasDiscrepancy(result) THEN FALSE
    ELSE IF criteria.mlVsPost /\ ~Flag(result, "ml_vs_postprocessing") THEN FALSE
    ELSE IF criteria.postVsDb /\ ~Flag(result, "postprocessing_vs_db") THEN FALSE
    ELSE IF criteria.missingInDb /\ ~Flag(result, "missing_in_db") THEN FALSE
    ELSE IF criteria.extraInDb /\ ~Flag(result, "extra_in_db") THEN FALSE
    ELSE TRUE

filterResults(rs, criteria) ==
    LET keep(result) == PassesFilter(result, criteria) IN Filter(keep, rs)

\* the number of results whose flag `name` is truthy
CountFlag(rs, name) ==
    LET flagged(result) == Flag(result, name) IN Len(Filter(flagged, rs))

\* getDiscrepancyStats: total and the four counters are computed from
\* this.results, withDiscrepancies is the stored discrepancyCount
getDiscrepancyStats ==
    [total |-> Len(results),
     withDiscrepancies |-> discrepancyCount,
     mlVsPostprocessing |-> CountFlag(results, "ml_vs_postprocessing"),
     postprocessingVsDb |-> CountFlag(results, "postprocessing_vs_db"),
     missingInDb |-> CountFlag(results, "missing_in_db"),
     extraInDb |-> CountFlag(results, "extra_in_db")]

\* array.join(sep), for an array of strings
RECURSIVE Join(_, _)
Join(cells, sep) ==
    IF Len(cells) = 0 THEN ""
    ELSE IF Len(cells) = 1 THEN cells[1]
    ELSE cells[1] \o sep \o Join(Tail(cells), sep)

CsvHeaders ==
    <<"Index", "Timestamp", "ML Games", "Post-Processed Games", "DB Sessions",
      "ML vs Post", "Post vs DB", "Missing in DB", "Extra in DB">>

\* Mutant of CsvRow: a flag is rendered YES whenever it is defined
CsvRow_yesWhenDefined(result) ==
    LET yesNo(name) ==
            IF name \in DOMAIN result.discrepancyFlags THEN "YES" ELSE "NO"
    IN <<IF "index" \in DOMAIN result THEN ToString(result.index) ELSE "",
         IF result.screenshot # null
            /\ "timestamp" \in DOMAIN result.screenshot[1]
         THEN result.screenshot[1].timestamp ELSE "",
         ToString(IF result.mlInference = null THEN 0
                  ELSE result.mlInference[1].numberOfGames),
         ToString(IF result.postProcessed = null THEN 0
                  ELSE result.postProcessed[1].gameCount),
         ToString(Len(result.dbSessions)),
         yesNo("ml_vs_postprocessing"), yesNo("postprocessing_vs_db"),
         yesNo("missing_in_db"), yesNo("extra_in_db")>>

\* One element of rows in exportAsCSV, each cell as join renders it: a
\* number in decimal, undefined as the empty string
CsvRow(result) ==
    LET yesNo(name) == IF Flag(result, name) THEN "YES" ELSE "NO"
    IN <<IF "index" \in DOMAIN result THEN ToString(result.index) ELSE "",
         IF result.screenshot # null
            /\ "timestamp" \in DOMAIN result.screenshot[1]
         THEN result.screenshot[1].timestamp ELSE "",
         ToString(IF result.mlInference = null THEN 0
                  ELSE result.mlInference[1].numberOfGames),
         ToString(IF result.postProcessed = null THEN 0
                  ELSE result.postProcessed[1].gameCount),
         ToString(Len(result.dbSessions)),
         yesNo("ml_vs_postprocessing"), yesNo("postprocessing_vs_db"),
         yesNo("missing_in_db"), yesNo("extra_in_db")>>

\* rows in exportAsCSV
CsvRows == [i \in 1..Len(results) |-> CsvRow(results[i])]

\* exportAsCSV: the header line and one line per row, joined by newlines
exportAsCSV ==
    Join(<<Join(CsvHeaders, ",")>>
            \o [i \in 1..Len(results) |-> Join(CsvRows[i], ",")],
         "\n")

\* -------------------------------------------------------- DiscrepancyManager
\* result.mlInference?.numberOfGames || 0
MlCount(result) ==
    IF result.mlInference = null THEN 0
    ELSE result.mlInference[1].numberOfGames

\* result.postProcessed?.gameCount || 0
PostCount(result) ==
    IF result.postProcessed = null THEN 0
    ELSE result.postProcessed[1].gameCount

\* result.mlInference?.games || []
MlGames(result) ==
    IF result.mlInference = null THEN <<>> ELSE result.mlInference[1].games

\* result.postProcessed?.games || []
PostGames(result) ==
    IF result.postProcessed = null THEN <<>> ELSE result.postProcessed[1].games

\* result.postProcessed?.slidingWindowState || []
SlidingWindow(result) ==
    IF result.postProcessed = null THEN <<>>
    ELSE result.postProcessed[1].slidingWindowState

\* A template literal: the literal parts and the numbers interpolated
\* between them
Template(parts, args) == [parts |-> parts, args |-> args]

\* Mutant of analyzeMlVsPost: the first comparison is >= instead of >
analyzeMlVsPost_equalIsInfo(result) ==
    LET mlGames == MlCount(result)
        postGames == PostCount(result)
    IN [type |-> "ml-vs-post",
        title |-> "ML API vs Post-Processing Mismatch",
        description |->
            IF mlGames >= postGames
            THEN Template(<<"ML detected ",
                            " game(s), but post-processing filtered down to ",
                            ". This is normal for sliding window logic building up threshold.">>,
                          <<mlGames, postGames>>)
            ELSE Template(<<"ML detected ",
                            " game(s), but post-processing returned ",
                            ". This should not happen!">>,
                          <<mlGames, postGames>>),
        severity |-> IF mlGames >= postGames THEN "info" ELSE "error",
        details |-> [mlGames |-> MlGames(result),
                     postGames |-> PostGames(result),
                     slidingWindowState |-> SlidingWindow(result)]]

analyzeMlVsPost(result) ==
    LET mlGames == MlCount(result)
        postGames == PostCount(result)
    IN [type |-> "ml-vs-post",
        title |-> "ML API vs Post-Processing Mismatch",
        description |->
            IF mlGames > postGames
            THEN Template(<<"ML detected ",
                            " game(s), but post-processing filtered down to ",
                            ". This is normal for sliding window logic building up threshold.">>,
                          <<mlGames, postGames>>)
            ELSE IF mlGames < postGames
            THEN Template(<<"ML detected ",
                            " game(s), but post-processing returned ",
                            ". This should not happen!">>,
                          <<mlGames, postGames>>)
            ELSE Template(<<"ML and post-processing both show ",
                            " games, but with different game IDs.">>,
                          <<mlGames>>),
        severity |-> IF mlGames > postGames THEN "info"
                     ELSE IF mlGames < postGames THEN "error"
                     ELSE "warning",
        details |-> [mlGames |-> MlGames(result),
                     postGames |-> PostGames(result),
                     slidingWindowState |-> SlidingWindow(result)]]

\* Mutant of analyzePostVsDb: equal counts are downgraded to a warning
analyzePostVsDb_warningWhenEqual(result) ==
    LET postGames == PostCount(result)
        dbSessions == Len(result.dbSessions)
    IN [type |-> "post-vs-db",
        title |-> "Post-Processing vs Database Mismatch",
        description |->
            Template(<<"Post-processing shows ",
                       " game(s), but database has ",
                       " session(s). This indicates a DB write issue.">>,
                     <<postGames, dbSessions>>),
        severity |-> IF postGames = dbSessions THEN "warning" ELSE "error",
        details |-> [postGames |-> PostGames(result),
                     dbSessions |-> result.dbSessions]]

analyzePostVsDb(result) ==
    LET postGames == PostCount(result)
        dbSessions == Len(result.dbSessions)
    IN [type |-> "post-vs-db",
        title |-> "Post-Processing vs Database Mismatch",
        description |->
            Template(<<"Post-processing shows ",
                       " game(s), but database has ",
                       " session(s). This indicates a DB write issue.">>,
                     <<postGames, dbSessions>>),
        severity |-> "error",
        details |-> [postGames |-> PostGames(result),
                     dbSessions |-> result.dbSessions]]

\* Mutant of analyzeMissingInDb: games are matched by game id against the
\* sessions' game identifier instead of by gameSessionId
analyzeMissingInDb_byGameId(result) ==
    LET postGames == PostGames(result)
        dbGameIds == {Arg(s, "gameIdentifier") : s \in SetOf(result.dbSessions)}
        missing(game) == Arg(game, "gameId") \notin dbGameIds
        missingGames == Filter(missing, postGames)
    IN [type |-> "missing-in-db",
        title |-> "Games Missing in Database",
        description |->
            Template(<<"", " game(s) from post-processing are missing in the database.">>,
                     <<Len(missingGames)>>),
        severity |-> "error",
        details |-> [missingGames |-> missingGames,
                     expectedCount |-> Len(postGames),
                     actualCount |-> Len(result.dbSessions)]]

analyzeMissingInDb(result) ==
    LET postGames == PostGames(result)
        dbSessionIds == {Arg(s, "gameSessionId") : s \in SetOf(result.dbSessions)}
        missing(game) == Arg(game, "gameSessionId") \notin dbSessionIds
        missingGames == Filter(missing, postGames)
    IN [type |-> "missing-in-db",
        title |-> "Games Missing in Database",
        description |->
            Template(<<"", " game(s) from post-processing are missing in the database.">>,
                     <<Len(missingGames)>>),
        severity |-> "error",
        details |-> [missingGames |-> missingGames,
                     expectedCount |-> Len(postGames),
                     actualCount |-> Len(result.dbSessions)]]

\* Mutant of analyzeExtraInDb: without a postProcessed block no session is
\* reported
analyzeExtraInDb_noneWithoutPost(result) ==
    LET postGameIds == {Arg(g, "gameSessionId") : g \in SetOf(PostGames(result))}
        extra(s) == Arg(s, "gameSessionId") \notin postGameIds
        extraSessions == IF result.postProcessed = null THEN <<>>
                         ELSE Filter(extra, result.dbSessions)
    IN [type |-> "extra-in-db",
        title |-> "Extra Sessions in Database",
        description |->
            Template(<<"", " session(s) in database that were not in post-processing output.">>,
                     <<Len(extraSessions)>>),
        severity |-> "warning",
        details |-> [extraSessions |-> extraSessions]]

analyzeExtraInDb(result) ==
    LET postGameIds == {Arg(g, "gameSessionId") : g \in SetOf(PostGames(result))}
        extra(s) == Arg(s, "gameSessionId") \notin postGameIds
        extraSessions == Filter(extra, result.dbSessions)
    IN [type |-> "extra-in-db",
        title |-> "Extra Sessions in Database",
        description |->
            Template(<<"", " session(s) in database that were not in post-processing output.">>,
                     <<Len(extraSessions)>>),
        severity |-> "warning",
        details |-> [extraSessions |-> extraSessions]]

\* Mutant of analyzeResult: extra-in-db is pushed before missing-in-db
analyzeResult_extraBeforeMissing(result) ==
    (IF Flag(result, "ml_vs_postprocessing")
     THEN <<analyzeMlVsPost(result)>> ELSE <<>>)
    \o (IF Flag(result, "postprocessing_vs_db")
        THEN <<analyzePostVsDb(result)>> ELSE <<>>)
    \o (IF Flag(result, "extra_in_db")
        THEN <<analyzeExtraInDb(result)>> ELSE <<>>)
    \o (IF Flag(result, "missing_in_db")
        THEN <<analyzeMissingInDb(result)>> ELSE <<>>)

\* discrepancies.push(...) under each flag, in source order
analyzeResult(result) ==
    (IF Flag(result, "ml_vs_postprocessing")
     THEN <<analyzeMlVsPost(result)>> ELSE <<>>)
    \o (IF Flag(result, "postprocessing_vs_db")
        THEN <<analyzePostVsDb(result)>> ELSE <<>>)
    \o (IF Flag(result, "missing_in_db")
        THEN <<analyzeMissingInDb(result)>> ELSE <<>>)
    \o (IF Flag(result, "extra_in_db")
        THEN <<analyzeExtraInDb(result)>> ELSE <<>>)

\* Mutant of compareGameLists: the second list is read with the first key
compareGameLists_firstKeyOnly(list1, list2, key1, key2) ==
    LET ids1 == {Arg(item, key1) : item \in SetOf(list1)}
        ids2 == {Arg(item, key1) : item \in SetOf(list2)}
        notIn2(item) == Arg(item, key1) \notin ids2
        notIn1(item) == Arg(item, key1) \notin ids1
        in2(item) == Arg(item, key1) \in ids2
        inFirst == Filter(notIn2, list1)
        inSecond == Filter(notIn1, list2)
        inBoth == Filter(in2, list1)
    IN [onlyInFirst |-> inFirst,
        onlyInSecond |-> inSecond,
        inBoth |-> inBoth,
        match |-> Len(inFirst) = 0 /\ Len(inSecond) = 0]

\* Mutant of compareGameLists: match looks at the first difference only
compareGameLists_matchFromFirst(list1, list2, key1, key2) ==
    LET ids1 == {Arg(item, key1) : item \in SetOf(list1)}
        ids2 == {Arg(item, key2) : item \in SetOf(list2)}
        notIn2(item) == Arg(item, key1) \notin ids2
        notIn1(item) == Arg(item, key2) \notin ids1
        in2(item) == Arg(item, key1) \in ids2
        inFirst == Filter(notIn2, list1)
        inSecond == Filter(notIn1, list2)
        inBoth == Filter(in2, list1)
    IN [onlyInFirst |-> inFirst,
        onlyInSecond |-> inSecond,
        inBoth |-> inBoth,
        match |-> Len(inFirst) = 0]

compareGameLists(list1, list2, key1, key2) ==
    LET ids1 == {Arg(item, key1) : item \in SetOf(list1)}
        ids2 == {Arg(item, key2) : item \in SetOf(list2)}
        notIn2(item) == Arg(item, key1) \notin ids2
        notIn1(item) == Arg(item, key2) \notin ids1
        in2(item) == Arg(item, key1) \in ids2
        inFirst == Filter(notIn2, list1)
        inSecond == Filter(notIn1, list2)
        inBoth == Filter(in2, list1)
    IN [onlyInFirst |-> inFirst,
        onlyInSecond |-> inSecond,
        inBoth |-> inBoth,
        match |-> Len(inFirst) = 0 /\ Len(inSecond) = 0]

\* ---------------------------------------------------------- ScreenshotViewer
NoCriteria ==
    [onlyDiscrepancies |-> FALSE, mlVsPost |-> FALSE, postVsDb |-> FALSE,
     missingInDb |-> FALSE, extraInDb |-> FALSE]

CriteriaNames == DOMAIN NoCriteria

\* Mutant of applyFilters: the bounds test is off by one, so the last
\* position of a view is reset too
applyFilters_offByOne(parserResults, ownResults, criteria, index) ==
    LET matched == filterResults(parserResults, criteria)
        view == IF Len(matched) = 0 /\ Len(ownResults) > 0
                THEN ownResults ELSE matched
    IN [filteredResults |-> view,
        currentIndex |-> IF index >= Len(view) - 1 THEN 0 ELSE index,
        returned |-> undefined]

\* applyFilters reads the parser's results (window.jsonParser.filterResults)
\* and the viewer's own; it has no return statement
applyFilters(parserResults, ownResults, criteria, index) ==
    LET matched == filterResults(parserResults, criteria)
        view == IF Len(matched) = 0 /\ Len(ownResults) > 0
                THEN ownResults ELSE matched
    IN [filteredResults |-> view,
        currentIndex |-> IF index >= Len(view) THEN 0 ELSE index,
        returned |-> undefined]

\* !screenshot || !screenshot.s3Key is false
HasS3Key(result) ==
    /\ result.screenshot # null
    /\ "s3Key" \in DOMAIN result.screenshot[1]
    /\ result.screenshot[1].s3Key # ""

\* The steps of displayCurrent after its await: displayResult, analyzeResult
\* and renderDiscrepancyAlert
displayResult(result) ==
    /\ currentResult' = <<result>>
    /\ discrepancies' = analyzeResult(result)

\* displayCurrent up to the point where it waits.  With an empty view
\* nothing is displayed.  For a frame without a screenshot displayScreenshot
\* draws the placeholder and returns, so the steps after the await run
\* before any other handler.  Otherwise the call waits for loadImage: for
\* the image element when fetchImage finds the key in the cache, for the
\* network when it does not; the result it will display is the one read
\* before the await.
displayCurrent(view, index) ==
    IF Len(view) = 0 \/ (index + 1) \notin DOMAIN view
    THEN UNCHANGED <<managerVars, displayVars>>
    ELSE LET result == view[index + 1] IN
         IF ~HasS3Key(result)
         THEN /\ canvas' = [shows |-> "No screenshot available"]
              /\ displayResult(result)
              /\ UNCHANGED pendingDisplays
         ELSE LET key == result.screenshot[1].s3Key IN
              /\ pendingDisplays' =
                    Append(pendingDisplays,
                           IF key \in DOMAIN imageCache
                           THEN [result |-> result, awaits |-> "image",
                                 url |-> imageCache[key]]
                           ELSE [result |-> result, awaits |-> "network"])
              /\ UNCHANGED <<managerVars, canvas>>

\* parseResult reads result.index first: a null or undefined entry throws
parseResultThrows(result) == result = null

\* The error validateAndParse throws on `data`, null if it returns
validateAndParseError(data) ==
    IF "session_id" \notin DOMAIN data \/ data.session_id = ""
    THEN <<"Missing required field: session_id">>
    ELSE IF "results" \notin DOMAIN data
    THEN <<"Missing or invalid results array">>
    ELSE IF \E i \in DOMAIN data.results : parseResultThrows(data.results[i])
    THEN <<"Cannot read properties of null (reading 'index')">>
    ELSE null

\* Mutant of validateAndParse: the discrepancy count is maintained
\* incrementally instead of being recounted
validateAndParse_accumulatesCount(data) ==
    IF ~ValidDocument(data)
    THEN UNCHANGED parserVars
    ELSE IF validateAndParseError(data) # null
    THEN /\ sessionMetadata' = <<Metadata(data)>>
         /\ UNCHANGED <<analysisData, results, discrepancyCount>>
    ELSE /\ sessionMetadata' = <<Metadata(data)>>
         /\ results' = Map(parseResult, data.results)
         /\ discrepancyCount' = discrepancyCount + CountDiscrepancies(results')
         /\ analysisData' = <<data>>

\* Mutant of validateAndParse: the held results are dropped before the
\* document is validated
validateAndParse_resetsFirst(data) ==
    IF ~ValidDocument(data)
    THEN /\ results' = <<>>
         /\ discrepancyCount' = 0
         /\ UNCHANGED <<analysisData, sessionMetadata>>
    ELSE IF validateAndParseError(data) # null
    THEN /\ sessionMetadata' = <<Metadata(data)>>
         /\ results' = <<>>
         /\ discrepancyCount' = 0
         /\ UNCHANGED analysisData
    ELSE /\ sessionMetadata' = <<Metadata(data)>>
         /\ results' = Map(parseResult, data.results)
         /\ discrepancyCount' = CountDiscrepancies(results')
         /\ analysisData' = <<data>>

\* validateAndParse: the fields are assigned in source order, so a throw
\* leaves the later ones as they were
validateAndParse(data) ==
    IF ~ValidDocument(data)
    THEN UNCHANGED parserVars
    ELSE IF validateAndParseError(data) # null
    THEN /\ sessionMetadata' = <<Metadata(data)>>
         /\ UNCHANGED <<analysisData, results, discrepancyCount>>
    ELSE /\ sessionMetadata' = <<Metadata(data)>>
         /\ results' = Map(parseResult, data.results)
         /\ discrepancyCount' = CountDiscrepancies(results')
         /\ analysisData' = <<data>>

\* loadResults(results): this.results = results; applyFilters();
\* currentIndex = 0; renderTimeline(); displayCurrent()
\* Mutant of loadResults: applyFilters is not called, the view is kept
loadResults_withoutApply(rs) ==
    /\ viewerResults' = rs
    /\ currentIndex' = 0
    /\ displayCurrent(filteredResults, 0)
    /\ UNCHANGED <<filteredResults, applyFiltersReturn, filterCriteria,
                   jumpToReturn>>

\* Mutant of loadResults: the position is the one applyFilters leaves
loadResults_keepsPosition(rs) ==
    \E af \in {applyFilters(rs, rs, filterCriteria, currentIndex)} :
        /\ viewerResults' = rs
        /\ filteredResults' = af.filteredResults
        /\ applyFiltersReturn' = af.returned
        /\ currentIndex' = af.currentIndex
        /\ displayCurrent(af.filteredResults, af.currentIndex)
        /\ UNCHANGED <<filterCriteria, jumpToReturn>>

loadResults(rs) ==
    \E af \in {applyFilters(rs, rs, filterCriteria, currentIndex)} :
        /\ viewerResults' = rs
        /\ filteredResults' = af.filteredResults
        /\ applyFiltersReturn' = af.returned
        /\ currentIndex' = 0
        /\ displayCurrent(af.filteredResults, 0)
        /\ UNCHANGED <<filterCriteria, jumpToReturn>>

\* loadBtn click handler, with a file whose text parses to `data`:
\* parseFile -> validateAndParse, then loadResults(data.results); a throw is
\* caught and reported
loadJson(data) ==
    /\ validateAndParse(data)
    /\ IF validateAndParseError(data) = null
       THEN /\ jsonLoaded' = TRUE
            /\ loadError' = null
            /\ loadResults(results')
       ELSE /\ jsonLoaded' = FALSE
            /\ loadError' = <<"JSON parsing error: " \o validateAndParseError(data)[1]>>
            /\ UNCHANGED <<viewerVars, managerVars, displayVars>>
    /\ UNCHANGED <<frameInput, cmpVars, imageVars>>

\* applyFilters(); renderTimeline(); displayCurrent() under new criteria
Refilter(criteria) ==
    \E af \in {applyFilters(results, viewerResults, criteria, currentIndex)} :
       /\ filterCriteria' = criteria
       /\ filteredResults' = af.filteredResults
       /\ currentIndex' = af.currentIndex
       /\ applyFiltersReturn' = af.returned
       /\ displayCurrent(af.filteredResults, af.currentIndex)
       /\ UNCHANGED <<parserVars, viewerResults, jumpToReturn, appVars, frameInput,
                      cmpVars, imageVars>>

\* Mutant of updateFilter: the viewer keeps the filtered view as its results
updateFilter_narrowsResults(filterName, enabled) ==
    \E criteria \in {[filterCriteria EXCEPT ![filterName] = enabled]} :
    \E af \in {applyFilters(results, viewerResults, criteria, currentIndex)} :
       /\ filterCriteria' = criteria
       /\ filteredResults' = af.filteredResults
       /\ viewerResults' = af.filteredResults
       /\ currentIndex' = af.currentIndex
       /\ applyFiltersReturn' = af.returned
       /\ displayCurrent(af.filteredResults, af.currentIndex)
       /\ UNCHANGED <<parserVars, jumpToReturn, appVars, frameInput, cmpVars,
                      imageVars>>

updateFilter(filterName, enabled) ==
    Refilter([filterCriteria EXCEPT ![filterName] = enabled])

\* Mutant of clearFilters: the criteria are reset but applyFilters is not
\* called
clearFilters_withoutApply ==
    /\ filterCriteria' = NoCriteria
    /\ displayCurrent(filteredResults, currentIndex)
    /\ UNCHANGED <<parserVars, viewerResults, filteredResults, currentIndex,
                   applyFiltersReturn, jumpToReturn, appVars, frameInput, cmpVars,
                   imageVars>>

clearFilters == Refilter(NoCriteria)

\* this.currentIndex = index; this.displayCurrent()
MoveTo(index) ==
    /\ currentIndex' = index
    /\ displayCurrent(filteredResults, index)
    /\ UNCHANGED <<parserVars, viewerResults, filteredResults, filterCriteria,
                   applyFiltersReturn, appVars, frameInput, cmpVars,
                   imageVars>>

\* Mutant of next: at the last position it wraps around to the first
next_wrapsAround ==
    IF currentIndex < Len(filteredResults) - 1
    THEN MoveTo(currentIndex + 1) /\ UNCHANGED jumpToReturn
    ELSE MoveTo(0) /\ UNCHANGED jumpToReturn

next ==
    IF currentIndex < Len(filteredResults) - 1
    THEN MoveTo(currentIndex + 1) /\ UNCHANGED jumpToReturn
    ELSE UNCHANGED vars

previous ==
    IF currentIndex > 0
    THEN MoveTo(currentIndex - 1) /\ UNCHANGED jumpToReturn
    ELSE UNCHANGED vars

first == MoveTo(0) /\ UNCHANGED jumpToReturn

last == MoveTo(Len(filteredResults) - 1) /\ UNCHANGED jumpToReturn

\* filteredResults.findIndex(r => r.index === index), zero-based, -1 if none
FindIndex(view, index) ==
    LET hits == {i \in 1..Len(view) :
                    "index" \in DOMAIN view[i] /\ view[i].index = index}
    IN IF hits = {} THEN -1
       ELSE (CHOOSE i \in hits : \A j \in hits : i <= j) - 1

\* Mutant of jumpTo: the index is looked up in the whole session
jumpTo_searchesSession(index) ==
    LET resultIndex == FindIndex(viewerResults, index)
    IN IF resultIndex # -1
       THEN MoveTo(resultIndex) /\ jumpToReturn' = <<TRUE>>
       ELSE /\ jumpToReturn' = <<FALSE>>
            /\ UNCHANGED <<parserVars, viewerResults, filteredResults,
                           currentIndex, filterCriteria, applyFiltersReturn,
                           managerVars, appVars, frameInput, cmpVars,
                           displayVars, imageVars>>

jumpTo(index) ==
    LET resultIndex == FindIndex(filteredResults, index)
    IN IF resultIndex # -1
       THEN MoveTo(resultIndex) /\ jumpToReturn' = <<TRUE>>
       ELSE /\ jumpToReturn' = <<FALSE>>
            /\ UNCHANGED <<parserVars, viewerResults, filteredResults,
                           currentIndex, filterCriteria, applyFiltersReturn,
                           managerVars, appVars, frameInput, cmpVars,
                           displayVars, imageVars>>

\* click on the timeline item renderTimeline created at `position`
timelineClick(position) ==
    /\ position \in 0..(Len(filteredResults) - 1)
    /\ MoveTo(position)
    /\ UNCHANGED jumpToReturn

\* JSONParser.clear(), which no handler of main.js calls
clear ==
    /\ analysisData' = null
    /\ sessionMetadata' = null
    /\ results' = <<>>
    /\ discrepancyCount' = 0
    /\ UNCHANGED <<viewerVars, managerVars, appVars, frameInput, cmpVars,
                   displayVars, imageVars>>

\* ------------------------------------------------------------------ S3Client
\* array without its i-th element
Remove(seq, i) == SubSeq(seq, 1, i - 1) \o SubSeq(seq, i + 1, Len(seq))

\* imageCache.values()
CachedUrls == {imageCache[k] : k \in DOMAIN imageCache}

\* fetchImage after the response and its blob have arrived:
\* URL.createObjectURL(blob), then imageCache.set(s3Key, blobUrl).  Blob
\* URLs are numbered in the order they are created.
CacheNewUrl(key) ==
    /\ urlCount' = urlCount + 1
    /\ liveUrls' = liveUrls \cup {urlCount + 1}
    /\ imageCache' = (key :> (urlCount + 1)) @@ imageCache

\* A call of fetchImage(s3Key) by a caller other than displayScreenshot: a
\* cached key is returned at once, any other key waits for the network
fetchImage(key) ==
    /\ IF key \in DOMAIN imageCache
       THEN /\ fetchReturn' = [url |-> imageCache[key]]
            /\ UNCHANGED fetches
       ELSE /\ fetches' = Append(fetches, key)
            /\ UNCHANGED fetchReturn
    /\ UNCHANGED <<imageCache, liveUrls, urlCount>>
    /\ UNCHANGED <<parserVars, viewerVars, managerVars, appVars, frameInput,
                   cmpVars, displayVars>>

\* The response of the i-th waiting call arrives with status ok
fetchResolved(i) ==
    /\ i \in DOMAIN fetches
    /\ CacheNewUrl(fetches[i])
    /\ fetches' = Remove(fetches, i)
    /\ fetchReturn' = [url |-> urlCount + 1]
    /\ UNCHANGED <<parserVars, viewerVars, managerVars, appVars, frameInput,
                   cmpVars, displayVars>>

\* fetch rejects, or the response is not ok: fetchImage rethrows
fetchFailed(i) ==
    /\ i \in DOMAIN fetches
    /\ fetches' = Remove(fetches, i)
    /\ fetchReturn' = [error |-> "HTTP error"]
    /\ UNCHANGED <<imageCache, liveUrls, urlCount>>
    /\ UNCHANGED <<parserVars, viewerVars, managerVars, appVars, frameInput,
                   cmpVars, displayVars>>

IsCacheMiss(key) == key \notin DOMAIN imageCache

\* preloadImages: fetchImage is called for every key in turn; the calls
\* whose key is not cached wait for the network, and a failure is caught
preloadImages(s3Keys) ==
    /\ fetches' = fetches \o SelectSeq(s3Keys, IsCacheMiss)
    /\ UNCHANGED <<imageCache, liveUrls, urlCount, fetchReturn>>
    /\ UNCHANGED <<parserVars, viewerVars, managerVars, appVars, frameInput,
                   cmpVars, displayVars>>

\* clearCache: every cached blob URL is revoked, then the cache is emptied
clearCache ==
    /\ liveUrls' = liveUrls \ CachedUrls
    /\ imageCache' = <<>>
    /\ UNCHANGED <<urlCount, fetches, fetchReturn>>
    /\ UNCHANGED <<parserVars, viewerVars, managerVars, appVars, frameInput,
                   cmpVars, displayVars>>

\* --------------------------------------- ScreenshotViewer: pending displays
\* The key the i-th pending display waits for
PendingKey(i) == pendingDisplays[i].result.screenshot[1].s3Key

\* Mutant of displayWithError: displayScreenshot has no catch block, so the
\* rejection ends displayCurrent
displayWithError_uncaught(i) ==
    /\ pendingDisplays' = Remove(pendingDisplays, i)
    /\ UNCHANGED <<managerVars, canvas>>

\* displayScreenshot's catch block, then the rest of displayCurrent
displayWithError(i) ==
    /\ canvas' = [shows |-> "Error loading screenshot"]
    /\ displayResult(pendingDisplays[i].result)
    /\ pendingDisplays' = Remove(pendingDisplays, i)

\* The response for the i-th pending display arrives: fetchImage caches the
\* blob URL and loadImage starts loading the image element
displayFetched(i) ==
    /\ i \in DOMAIN pendingDisplays
    /\ pendingDisplays[i].awaits = "network"
    /\ CacheNewUrl(PendingKey(i))
    /\ pendingDisplays' =
          [pendingDisplays EXCEPT
              ![i] = [result |-> pendingDisplays[i].result, awaits |-> "image",
                      url |-> urlCount + 1]]
    /\ UNCHANGED <<fetches, fetchReturn, canvas>>
    /\ UNCHANGED <<parserVars, viewerVars, managerVars, appVars, frameInput,
                   cmpVars>>

\* The fetch of the i-th pending display fails: the error is caught by
\* displayScreenshot and displayCurrent goes on
displayFetchFailed(i) ==
    /\ i \in DOMAIN pendingDisplays
    /\ pendingDisplays[i].awaits = "network"
    /\ displayWithError(i)
    /\ UNCHANGED <<parserVars, viewerVars, appVars, frameInput, cmpVars,
                   imageVars>>

\* img.onload of the i-th pending display: the image is drawn and
\* displayCurrent goes on
displayImageLoaded(i) ==
    /\ i \in DOMAIN pendingDisplays
    /\ pendingDisplays[i].awaits = "image"
    /\ canvas' = [shows |-> "image", key |-> PendingKey(i)]
    /\ displayResult(pendingDisplays[i].result)
    /\ pendingDisplays' = Remove(pendingDisplays, i)
    /\ UNCHANGED <<parserVars, viewerVars, appVars, frameInput, cmpVars,
                   imageVars>>

\* img.onerror of the i-th pending display
displayImageFailed(i) ==
    /\ i \in DOMAIN pendingDisplays
    /\ pendingDisplays[i].awaits = "image"
    /\ displayWithError(i)
    /\ UNCHANGED <<parserVars, viewerVars, appVars, frameInput, cmpVars,
                   imageVars>>

\* --------------------------------------------------- direct calls (pure code)
\* discrepancyManager.analyzeResult(jsonParser.parseResult(entry))
classifyFrame ==
    /\ frameInput # null
    /\ currentResult = null
    /\ ~parseResultThrows(frameInput[1])
    /\ LET result == parseResult(frameInput[1])
       IN /\ currentResult' = <<result>>
          /\ discrepancies' = analyzeResult(result)
    /\ UNCHANGED <<parserVars, viewerVars, appVars, frameInput, cmpVars,
                   displayVars, imageVars>>

callCompare ==
    /\ cmpArgs # null
    /\ cmpResult = null
    /\ cmpResult' = <<compareGameLists(cmpArgs[1].list1, cmpArgs[1].list2,
                                       cmpArgs[1].key1, cmpArgs[1].key2)>>
    /\ UNCHANGED <<parserVars, viewerVars, managerVars, appVars, frameInput,
                   cmpArgs, cmpSwapped, displayVars, imageVars>>

callCompareSwapped ==
    /\ cmpArgs # null
    /\ cmpSwapped = null
    /\ cmpSwapped' = <<compareGameLists(cmpArgs[1].list2, cmpArgs[1].list1,
                                        cmpArgs[1].key2, cmpArgs[1].key1)>>
    /\ UNCHANGED <<parserVars, viewerVars, managerVars, appVars, frameInput,
                   cmpArgs, cmpResult, displayVars, imageVars>>

\* ------------------------------------------------------------ input domains
MlGame(c) == [class |-> c, confidence |-> 90]
PostGame(g, sid) == [game_id |-> g, game_session_id |-> sid]
DbSession(sid, g) == [game_session_id |-> sid, game_identifier |-> g]

\* The frames of the documents loaded into the viewer.  None has a
\* screenshot.  Two share index 2; discrepancy_flags is absent, partial
\* and complete; no frame has extra_in_db set.
ViewerFrames ==
    { [index |-> 1,
       ml_inference |-> [games |-> <<MlGame("g1")>>, number_of_games |-> 1],
       post_processed |-> [games |-> <<PostGame("g1", "s1")>>, game_count |-> 1],
       db_sessions |-> <<DbSession("s1", "g1")>>],
      [index |-> 2,
       ml_inference |-> [games |-> <<MlGame("g1"), MlGame("g2")>>,
                         number_of_games |-> 2],
       post_processed |-> [games |-> <<PostGame("g1", "s1")>>, game_count |-> 1],
       db_sessions |-> <<DbSession("s1", "g1")>>,
       discrepancy_flags |-> [ml_vs_postprocessing |-> TRUE]],
      [index |-> 2,
       ml_inference |-> [games |-> <<MlGame("g1")>>, number_of_games |-> 1],
       post_processed |-> [games |-> <<PostGame("g1", "s1"), PostGame("g2", "s2")>>,
                           game_count |-> 2],
       db_sessions |-> <<DbSession("s1", "g1")>>,
       discrepancy_flags |-> [ml_vs_postprocessing |-> TRUE,
                              postprocessing_vs_db |-> TRUE,
                              missing_in_db |-> TRUE,
                              extra_in_db |-> FALSE]] }

\* all sequences over S of length at most n without repeated elements
DistinctSeqsUpTo(S, n) ==
    {q \in SeqsUpTo(S, n) : \A i, j \in DOMAIN q : i # j => q[i] # q[j]}

\* Documents: every results array of distinct ViewerFrames up to MaxResults,
\* and documents that lack a required field.  A results value that is not an
\* array is written under the key results_object, so that the key results
\* is present exactly when Array.isArray(data.results) holds.
Documents ==
    {[session_id |-> "session-a", results |-> rs] :
        rs \in DistinctSeqsUpTo(ViewerFrames, MaxResults)}
    \cup {[results |-> <<>>],
          [session_id |-> "session-b"],
          [session_id |-> "session-b", results_object |-> [length |-> 1]]}

\* Frames with a screenshot that has a timestamp and no s3_key, with absent
\* blocks, an absent index, and flags that are true, false and absent
ExportFrames ==
    { [index |-> 7,
       screenshot |-> [filename |-> "f7.png", timestamp |-> "2024-01-05T10:00:00Z"],
       discrepancy_flags |-> [ml_vs_postprocessing |-> TRUE,
                              postprocessing_vs_db |-> FALSE]],
      [index |-> 8,
       screenshot |-> [filename |-> "f8.png"],
       ml_inference |-> [number_of_games |-> 2],
       post_processed |-> [game_count |-> 1],
       db_sessions |-> <<DbSession("s1", "g1"), DbSession("s2", "g2")>>,
       discrepancy_flags |-> [postprocessing_vs_db |-> TRUE,
                              extra_in_db |-> TRUE]],
      [screenshot |-> [timestamp |-> "2024-01-05T10:00:05Z"],
       post_processed |-> [games |-> <<>>],
       db_sessions |-> <<DbSession("s1", "g1")>>] }

\* Documents handed to the parser: those above, documents that carry the
\* optional metadata fields, documents of ExportFrames, and documents with
\* a null entry in results
ParserDocuments ==
    Documents
    \cup {[session_id |-> "session-f", results |-> rs] :
            rs \in DistinctSeqsUpTo(ExportFrames, MaxResults)}
    \cup {[session_id |-> "session-c", platform |-> "twitch", total |-> 5,
           results |-> <<f>>] : f \in ViewerFrames}
    \cup {[session_id |-> "session-d", results |-> <<null>>],
          [session_id |-> "session-e", channel |-> "main",
           results |-> <<[index |-> 1], null>>]}

\* Frames with a stored screenshot, and one without: the first two differ
\* in their key, the third has a discrepancy
ImageFrames ==
    << [index |-> 1,
        screenshot |-> [filename |-> "f1.png", s3_key |-> "k1"]],
       [index |-> 2,
        screenshot |-> [filename |-> "f2.png", s3_key |-> "k2"],
        post_processed |-> [games |-> <<PostGame("g1", "s1")>>, game_count |-> 1],
        discrepancy_flags |-> [postprocessing_vs_db |-> TRUE,
                               missing_in_db |-> TRUE]],
       [index |-> 3,
        discrepancy_flags |-> [extra_in_db |-> FALSE]] >>

\* Documents whose frames have screenshots: every prefix of ImageFrames up
\* to MaxResults + 1 frames, the empty one included
ImageDocuments ==
    {[session_id |-> "session-g", results |-> SubSeq(ImageFrames, 1, n)] :
        n \in 0..(IF MaxResults + 1 < Len(ImageFrames)
                  THEN MaxResults + 1 ELSE Len(ImageFrames))}
    \cup {[session_id |-> "session-g"]}

ImageKeys == {"k1", "k2"}

\* indices typed into the jump box
JumpIndices == {1, 2, 3}

\* Frames handed to the classifier directly
CountFields(k) == {<<>>} \cup {k :> n : n \in 0..MaxCount}

MlBlocks ==
    {[games |-> gs] @@ c :
        gs \in SeqsUpTo({MlGame("g1"), MlGame("g2")}, MaxGames),
        c \in CountFields("number_of_games")}

PostBlocks ==
    {[games |-> gs] @@ c :
        gs \in SeqsUpTo({PostGame("g1", "s1"), PostGame("g2", "s2"),
                         PostGame("g1", "s2"), [game_id |-> "g2"]}, MaxGames),
        c \in CountFields("game_count")}

DbLists ==
    SeqsUpTo({DbSession("s1", "g1"), DbSession("s2", "g2"),
              [game_identifier |-> "g1"]}, MaxGames)

\* every discrepancy_flags object: each flag true, false or absent
FlagObjects == UNION {[D -> BOOLEAN] : D \in SUBSET FlagNames}

AllFlags == [f \in FlagNames |-> TRUE]

Optional(k, values) == {<<>>} \cup {k :> v : v \in values}

\* inference against post-processing, all four flags set
MlVsPostFrames ==
    {[index |-> 1, discrepancy_flags |-> AllFlags] @@ ml @@ post :
        ml \in Optional("ml_inference", MlBlocks),
        post \in Optional("post_processed", PostBlocks)}

\* post-processing against the database, all four flags set
PostVsDbFrames ==
    {[index |-> 1, discrepancy_flags |-> AllFlags] @@ post @@ db :
        post \in Optional("post_processed", PostBlocks),
        db \in Optional("db_sessions", DbLists)}

\* every flags object, and none
FlagFrames ==
    {[index |-> 1,
      post_processed |-> [games |-> <<PostGame("g1", "s1")>>, game_count |-> 1],
      db_sessions |-> <<DbSession("s2", "g2")>>] @@ fl :
        fl \in Optional("discrepancy_flags", FlagObjects)}

\* blocks of a failed stage: an error string, with or without a count
FailedMlBlocks ==
    {[error |-> "inference timeout"] @@ c : c \in CountFields("number_of_games")}

FailedPostBlocks ==
    {[error |-> "post-processing failed"] @@ c : c \in CountFields("game_count")}

\* frames whose stages are absent or failed, all four flags set
FailedStageFrames ==
    {[index |-> 1, discrepancy_flags |-> AllFlags] @@ ml @@ post @@ db :
        ml \in Optional("ml_inference", FailedMlBlocks),
        post \in Optional("post_processed", FailedPostBlocks),
        db \in Optional("db_sessions", {<<DbSession("s1", "g1")>>})}

\* entries with and without an index, their blocks absent or holding an
\* empty games list
IndexFrames ==
    {ix @@ ml @@ post @@ fl :
        ix \in Optional("index", {2}),
        ml \in Optional("ml_inference", {[games |-> <<>>]}),
        post \in Optional("post_processed", {[games |-> <<>>]}),
        fl \in Optional("discrepancy_flags", {AllFlags})}

\* frames whose boolean fields are true, false or absent
BooleanFrames ==
    {[index |-> 1, discrepancy_flags |-> AllFlags] @@ ml @@ post @@ db :
        ml \in Optional("ml_inference",
                 {[number_of_games |-> 1] @@ b :
                     b \in Optional("is_uniform_frame", BOOLEAN)}),
        post \in Optional("post_processed",
                 {[game_count |-> 1] @@ b :
                     b \in Optional("applied_threshold", BOOLEAN)}),
        db \in Optional("db_sessions",
                 SeqsUpTo({DbSession("s1", "g1") @@ b :
                              b \in Optional("matches_screenshot", BOOLEAN)},
                          MaxGames))}

\* Lists handed to compareGameLists: entities carrying one or both keys
Entities ==
    {[gameId |-> g, gameSessionId |-> sid] : g \in {"a", "b"}, sid \in {"a", "b"}}
    \cup {[gameId |-> "a"]}

CompareCalls ==
    [list1 : SeqsUpTo(Entities, MaxList), list2 : SeqsUpTo(Entities, MaxList),
     key1 : {"gameId", "gameSessionId"}, key2 : {"gameId", "gameSessionId"}]

\* ------------------------------------------------------------ specifications
\* The state after the constructors have run
Constructed ==
    /\ analysisData = null
    /\ sessionMetadata = null
    /\ results = <<>>
    /\ discrepancyCount = 0
    /\ viewerResults = <<>>
    /\ filteredResults = <<>>
    /\ currentIndex = 0
    /\ filterCriteria = NoCriteria
    /\ applyFiltersReturn = undefined
    /\ currentResult = null
    /\ discrepancies = <<>>
    /\ jsonLoaded = FALSE
    /\ jumpToReturn = undefined
    /\ loadError = null
    /\ pendingDisplays = <<>>
    /\ canvas = [shows |-> "blank"]
    /\ imageCache = <<>>
    /\ liveUrls = {}
    /\ urlCount = 0
    /\ fetches = <<>>
    /\ fetchReturn = undefined
    /\ cmpResult = null
    /\ cmpSwapped = null

\* The application: documents are loaded, filters toggled, frames navigated
Init == Constructed /\ frameInput = null /\ cmpArgs = null

Next ==
    \/ \E data \in Documents : loadJson(data)
    \/ \E name \in CriteriaNames, enabled \in BOOLEAN : updateFilter(name, enabled)
    \/ clearFilters
    \/ next
    \/ previous
    \/ first
    \/ last
    \/ \E index \in JumpIndices : jumpTo(index)
    \/ \E position \in 0..(MaxResults + 1) : timelineClick(position)

Spec == Init /\ [][Next]_vars

\* The classifier applied to one frame
InitClassify ==
    /\ Constructed
    /\ \/ \E f \in MlVsPostFrames : frameInput = <<f>>
       \/ \E f \in PostVsDbFrames : frameInput = <<f>>
       \/ \E f \in FlagFrames : frameInput = <<f>>
       \/ \E f \in FailedStageFrames : frameInput = <<f>>
       \/ \E f \in IndexFrames : frameInput = <<f>>
       \/ \E f \in BooleanFrames : frameInput = <<f>>
       \/ frameInput = <<null>>
    /\ cmpArgs = null

SpecClassify == InitClassify /\ [][classifyFrame]_vars

\* compareGameLists applied to one pair of lists, and to the swapped pair
InitCompare ==
    Constructed /\ frameInput = null /\ cmpArgs \in {<<c>> : c \in CompareCalls}

NextCompare == callCompare \/ callCompareSwapped

SpecCompare == InitCompare /\ [][NextCompare]_vars

\* The parser loaded, reloaded and cleared, with a filter toggle and a
\* navigation step of the viewer in between
NextParser ==
    \/ \E data \in ParserDocuments : loadJson(data)
    \/ clear
    \/ \E enabled \in BOOLEAN : updateFilter("onlyDiscrepancies", enabled)
    \/ next

SpecParser == Init /\ [][NextParser]_vars

\* The viewer over frames with screenshots: at most MaxPending calls of
\* displayCurrent wait at a time, and at most MaxUrls blob URLs are created
CanDisplay == Len(pendingDisplays) < MaxPending

NextDisplay ==
    \/ \E data \in ImageDocuments : CanDisplay /\ loadJson(data)
    \/ \E enabled \in BOOLEAN :
          CanDisplay /\ updateFilter("onlyDiscrepancies", enabled)
    \/ CanDisplay /\ next
    \/ CanDisplay /\ previous
    \/ CanDisplay /\ last
    \/ \E i \in 1..MaxPending : urlCount < MaxUrls /\ displayFetched(i)
    \/ \E i \in 1..MaxPending : displayFetchFailed(i)
    \/ \E i \in 1..MaxPending : displayImageLoaded(i)
    \/ \E i \in 1..MaxPending : displayImageFailed(i)

SpecDisplay == Init /\ [][NextDisplay]_vars

\* The image cache: fetchImage is called by loadImage and by preloadImages,
\* responses arrive in any order, and the cache is cleared in between
NextCache ==
    \/ \E key \in ImageKeys : Len(fetches) < MaxFetches /\ fetchImage(key)
    \/ \E s3Keys \in SeqsUpTo(ImageKeys, MaxFetches) :
          Len(fetches) + Len(s3Keys) <= MaxFetches /\ preloadImages(s3Keys)
    \/ \E i \in 1..MaxFetches : urlCount < MaxUrls /\ fetchResolved(i)
    \/ \E i \in 1..MaxFetches : fetchFailed(i)
    \/ clearCache

SpecCache == Init /\ [][NextCache]_vars

\* ===================================================================== claims
\* Every FrameResult held anywhere in the application
AllFrames ==
    SetOf(results) \cup SetOf(viewerResults) \cup SetOf(filteredResults)
    \cup SetOf(currentResult)

\* The four flags of a FrameResult, read as "is true"
FlagIsTrue(r, f) ==
    f \in DOMAIN r.discrepancyFlags /\ r.discrepancyFlags[f] = TRUE

HasDiscrepancyIsTrue(r) ==
    "hasDiscrepancy" \in DOMAIN r /\ r.hasDiscrepancy = TRUE

\* C1: in every state reached by loads, filter changes and navigation, each
\* FrameResult has hasDiscrepancy true exactly when at least one of its four
\* flags is true (a frame without discrepancy_flags, or lacking some flags,
\* included).
C1_HasDiscrepancyIsOrOfFlags ==
    \A r \in AllFrames :
        HasDiscrepancyIsTrue(r) <=> (\E f \in FlagNames : FlagIsTrue(r, f))

\* C1 witness: after a filter change and a navigation step the session holds
\* a frame without flags, a frame with only some flags, and a flagged frame
\* is the current one.
C1_Witness ==
    /\ filterCriteria # NoCriteria
    /\ currentIndex = 1
    /\ \E r \in SetOf(results) :
          r.discrepancyFlags = <<>> /\ ~HasDiscrepancyIsTrue(r)
    /\ \E r \in SetOf(filteredResults) :
          /\ DOMAIN r.discrepancyFlags \notin {{}, FlagNames}
          /\ HasDiscrepancyIsTrue(r)
    /\ currentResult # null /\ HasDiscrepancyIsTrue(currentResult[1])

\* ------------------------------------------------ the classifier, frame by frame
\* The frame handed to the classifier, as it was in the document
Classified == frameInput # null /\ currentResult # null

InputFlag(f) ==
    /\ "discrepancy_flags" \in DOMAIN frameInput[1]
    /\ f \in DOMAIN frameInput[1].discrepancy_flags
    /\ frameInput[1].discrepancy_flags[f] = TRUE

InputBlockField(block, field, default) ==
    IF block \in DOMAIN frameInput[1] /\ field \in DOMAIN frameInput[1][block]
    THEN frameInput[1][block][field] ELSE default

InferenceCount == InputBlockField("ml_inference", "number_of_games", 0)
PostProcessedCount == InputBlockField("post_processed", "game_count", 0)

\* The identities the two stages report: inference labels, post-processed ids
InferenceIdentities ==
    {g.class : g \in SetOf(InputBlockField("ml_inference", "games", <<>>))}
PostProcessedIdentities ==
    {g.game_id : g \in SetOf(InputBlockField("post_processed", "games", <<>>))}

\* The records of one category among those analyzeResult returned
Records(type) ==
    {discrepancies[i] : i \in {j \in DOMAIN discrepancies :
                                  discrepancies[j].type = type}}

CategoryOrder ==
    <<[flag |-> "ml_vs_postprocessing", type |-> "ml-vs-post"],
      [flag |-> "postprocessing_vs_db", type |-> "post-vs-db"],
      [flag |-> "missing_in_db", type |-> "missing-in-db"],
      [flag |-> "extra_in_db", type |-> "extra-in-db"]>>

FlaggedCategory(c) == InputFlag(c.flag)

\* C3: analyzeResult returns one record per true flag and none for a flag
\* that is not true, in the order ml-vs-post, post-vs-db, missing-in-db,
\* extra-in-db; the sequence is empty iff hasDiscrepancy is not true.
C3_OneRecordPerFlagInOrder ==
    Classified =>
        /\ [i \in DOMAIN discrepancies |-> discrepancies[i].type]
             = [i \in DOMAIN SelectSeq(CategoryOrder, FlaggedCategory) |->
                    SelectSeq(CategoryOrder, FlaggedCategory)[i].type]
        /\ discrepancies = <<>> <=> ~HasDiscrepancyIsTrue(currentResult[1])

\* C3 witness: the second and fourth flags are true, the first is false and
\* the third is absent: two records, in that order.
C3_Witness ==
    /\ Classified
    /\ "discrepancy_flags" \in DOMAIN frameInput[1]
    /\ frameInput[1].discrepancy_flags =
          [ml_vs_postprocessing |-> FALSE, postprocessing_vs_db |-> TRUE,
           extra_in_db |-> TRUE]
    /\ Len(discrepancies) = 2
    /\ discrepancies[1].type = "post-vs-db"
    /\ discrepancies[2].type = "extra-in-db"

\* Two entities carry the same gameSessionId (both undefined counts as same)
SameSessionId(a, b) ==
    IF "gameSessionId" \in DOMAIN a
    THEN "gameSessionId" \in DOMAIN b /\ a.gameSessionId = b.gameSessionId
    ELSE "gameSessionId" \notin DOMAIN b

\* The post-processed games and DB sessions of the classified FrameResult
ClassifiedPostGames ==
    IF currentResult[1].postProcessed = null THEN <<>>
    ELSE currentResult[1].postProcessed[1].games

ClassifiedDbSessions == currentResult[1].dbSessions

NotInDb(game) ==
    \A i \in DOMAIN ClassifiedDbSessions :
        ~SameSessionId(game, ClassifiedDbSessions[i])

NotInPost(session) ==
    \A i \in DOMAIN ClassifiedPostGames :
        ~SameSessionId(session, ClassifiedPostGames[i])

\* C4: the MissingInDatabase evidence is the post-processed games, in order,
\* whose gameSessionId equals that of no DB session; the description reports
\* its size; expectedCount is the number of post-processed games and
\* actualCount the number of DB sessions; severity is error.
C4_MissingEvidence ==
    Classified =>
        /\ InputFlag("missing_in_db") => Records("missing-in-db") # {}
        /\ \A d \in Records("missing-in-db") :
            /\ d.details.missingGames = SelectSeq(ClassifiedPostGames, NotInDb)
            /\ d.description.args = <<Len(d.details.missingGames)>>
            /\ d.details.expectedCount = Len(ClassifiedPostGames)
            /\ d.details.actualCount = Len(ClassifiedDbSessions)
            /\ d.severity = "error"

\* C4 witness: of two post-processed games one is in the database and one is
\* not.
C4_Witness ==
    /\ Classified
    /\ \E d \in Records("missing-in-db") :
          /\ Len(d.details.missingGames) = 1
          /\ d.details.expectedCount = 2
          /\ d.details.actualCount >= 1
          /\ d.details.missingGames[1] = ClassifiedPostGames[2]

\* C5: the ExtraInDatabase evidence is the DB sessions, in order, whose
\* gameSessionId equals that of no post-processed game (all of them when
\* postProcessed is absent); severity is warning.
C5_ExtraEvidence ==
    Classified =>
        /\ InputFlag("extra_in_db") => Records("extra-in-db") # {}
        /\ \A d \in Records("extra-in-db") :
            /\ d.details.extraSessions = SelectSeq(ClassifiedDbSessions, NotInPost)
            /\ currentResult[1].postProcessed = null
                  => d.details.extraSessions = ClassifiedDbSessions
            /\ d.severity = "warning"

\* C5 witness: postProcessed is absent and both DB sessions are extra.
C5_Witness ==
    /\ Classified
    /\ currentResult[1].postProcessed = null
    /\ \E d \in Records("extra-in-db") :
          Len(d.details.extraSessions) = 2

\* C6: the PostProcessing-vs-Database record has severity error whatever the
\* two counts are, and carries the whole post-processed games list and the
\* whole DB sessions list.
C6_PostVsDbAlwaysError ==
    Classified =>
        /\ InputFlag("postprocessing_vs_db") => Records("post-vs-db") # {}
        /\ \A d \in Records("post-vs-db") :
            /\ d.severity = "error"
            /\ d.details.postGames = ClassifiedPostGames
            /\ d.details.dbSessions = ClassifiedDbSessions
            /\ d.description.args =
                  <<PostProcessedCount, Len(ClassifiedDbSessions)>>

\* C6 witness: the post-processed count equals the number of DB sessions,
\* and the record is still an error.
C6_Witness ==
    /\ Classified
    /\ PostProcessedCount = Len(ClassifiedDbSessions)
    /\ PostProcessedCount > 0
    /\ \E d \in Records("post-vs-db") : d.severity = "error"

\* ------------------------------------------------------- list reconciliation
BothCompared == cmpArgs # null /\ cmpResult # null /\ cmpSwapped # null

\* The identities of a list under a key (an entity without the key has the
\* identity undefined)
Identities(list, key) == {Arg(list[i], key) : i \in DOMAIN list}

\* The identities of a list under a key, in list order
IdentitySeq(list, key) == [i \in DOMAIN list |-> Arg(list[i], key)]

\* C7 as stated: calling compareGameLists with the lists and keys swapped
\* swaps onlyInFirst with onlyInSecond and leaves inBoth and match unchanged
\* (inBoth unchanged read generously: the same elements, or at least the
\* same identities in the same order and number).
C7_SymmetryAsStated ==
    BothCompared =>
        /\ cmpSwapped[1].onlyInFirst = cmpResult[1].onlyInSecond
        /\ cmpSwapped[1].onlyInSecond = cmpResult[1].onlyInFirst
        /\ \/ cmpSwapped[1].inBoth = cmpResult[1].inBoth
           \/ IdentitySeq(cmpSwapped[1].inBoth, cmpArgs[1].key2)
                 = IdentitySeq(cmpResult[1].inBoth, cmpArgs[1].key1)
        /\ cmpSwapped[1].match = cmpResult[1].match

\* C7 amended: swapping the lists and keys swaps onlyInFirst with
\* onlyInSecond and leaves match unchanged; inBoth is taken from whichever
\* list comes first, so after the swap it holds the same set of identities
\* but not, in general, the same elements, order or multiplicity.
C7_SymmetryUpToIdentities ==
    BothCompared =>
        /\ cmpSwapped[1].onlyInFirst = cmpResult[1].onlyInSecond
        /\ cmpSwapped[1].onlyInSecond = cmpResult[1].onlyInFirst
        /\ cmpSwapped[1].match = cmpResult[1].match
        /\ Identities(cmpSwapped[1].inBoth, cmpArgs[1].key2)
             = Identities(cmpResult[1].inBoth, cmpArgs[1].key1)
        /\ SetOf(cmpResult[1].inBoth) \subseteq SetOf(cmpArgs[1].list1)
        /\ SetOf(cmpSwapped[1].inBoth) \subseteq SetOf(cmpArgs[1].list2)

\* C7 witness: the first list holds one identity twice, the keys differ, and
\* inBoth of the swapped call is a different sequence.
C7_Witness ==
    /\ BothCompared
    /\ cmpArgs[1].key1 # cmpArgs[1].key2
    /\ Len(cmpArgs[1].list1) = 2
    /\ Cardinality(Identities(cmpArgs[1].list1, cmpArgs[1].key1)) = 1
    /\ Len(cmpResult[1].inBoth) = 2
    /\ Len(cmpSwapped[1].inBoth) = 1
    /\ cmpResult[1].onlyInSecond # <<>>

\* c is a1 and a2 interleaved: every element of c comes from exactly one of
\* them, and each keeps its order
RECURSIVE IsInterleaving(_, _, _)
IsInterleaving(a1, a2, c) ==
    IF c = <<>> THEN a1 = <<>> /\ a2 = <<>>
    ELSE \/ (a1 # <<>> /\ Head(a1) = Head(c)
             /\ IsInterleaving(Tail(a1), a2, Tail(c)))
         \/ (a2 # <<>> /\ Head(a2) = Head(c)
             /\ IsInterleaving(a1, Tail(a2), Tail(c)))

\* C8: match is true exactly when onlyInFirst and onlyInSecond are both
\* empty, which is exactly when the lists have the same set of identities;
\* onlyInFirst and inBoth together hold every element of the first list once,
\* in order.
C8_MatchIffSameIdentities ==
    (cmpArgs # null /\ cmpResult # null) =>
        LET a == cmpArgs[1]
            r == cmpResult[1]
        IN /\ r.match = TRUE <=> (r.onlyInFirst = <<>> /\ r.onlyInSecond = <<>>)
           /\ r.match = TRUE <=>
                 Identities(a.list1, a.key1) = Identities(a.list2, a.key2)
           /\ IsInterleaving(r.onlyInFirst, r.inBoth, a.list1)
           /\ Identities(r.onlyInFirst, a.key1)
                 \cap Identities(a.list2, a.key2) = {}
           /\ Identities(r.inBoth, a.key1)
                 \subseteq Identities(a.list2, a.key2)

\* C8 witness: lists of different length and order with the same identities
\* match.
C8_Witness ==
    /\ cmpArgs # null /\ cmpResult # null
    /\ cmpResult[1].match = TRUE
    /\ Len(cmpArgs[1].list1) = 2 /\ Len(cmpArgs[1].list2) = 1
    /\ Cardinality(SetOf(cmpArgs[1].list1)) = 2
    /\ cmpArgs[1].list1[1] # cmpArgs[1].list2[1]

\* ------------------------------------------------------------ the filtered view
\* A result satisfies every criterion that is set
SatisfiesAll(r) ==
    /\ filterCriteria.onlyDiscrepancies => HasDiscrepancyIsTrue(r)
    /\ filterCriteria.mlVsPost => FlagIsTrue(r, "ml_vs_postprocessing")
    /\ filterCriteria.postVsDb => FlagIsTrue(r, "postprocessing_vs_db")
    /\ filterCriteria.missingInDb => FlagIsTrue(r, "missing_in_db")
    /\ filterCriteria.extraInDb => FlagIsTrue(r, "extra_in_db")

OnlyDiscrepanciesSet ==
    filterCriteria = [NoCriteria EXCEPT !.onlyDiscrepancies = TRUE]

\* C9: when at least one result satisfies the criteria, the filtered view is
\* the subsequence, in session order, of the results satisfying every
\* criterion that is set; with onlyDiscrepancies alone it is the results with
\* hasDiscrepancy.
C9_ViewIsConjunctiveFilter ==
    /\ SelectSeq(results, SatisfiesAll) # <<>>
          => filteredResults = SelectSeq(results, SatisfiesAll)
    /\ (OnlyDiscrepanciesSet /\ \E r \in SetOf(results) : HasDiscrepancyIsTrue(r))
          => filteredResults = SelectSeq(results, HasDiscrepancyIsTrue)

\* C9 witness: mlVsPost and missingInDb are both set; both results have the
\* first flag and only the second has the other, and the view is that one.
C9_Witness ==
    /\ filterCriteria.mlVsPost /\ filterCriteria.missingInDb
    /\ ~filterCriteria.onlyDiscrepancies
    /\ Len(results) = 2
    /\ FlagIsTrue(results[1], "ml_vs_postprocessing")
    /\ ~FlagIsTrue(results[1], "missing_in_db")
    /\ FlagIsTrue(results[2], "missing_in_db")
    /\ filteredResults = <<results[2]>>

\* The criteria match no result of a non-empty session
FallbackCase ==
    /\ results # <<>>
    /\ \A r \in SetOf(results) : ~SatisfiesAll(r)

\* C10: when the criteria match no result of a non-empty session, the view
\* is the full sequence and applyFilters tells its caller, through a flag it
\* returns, that the fallback occurred.
C10_FallbackIsFlagged ==
    FallbackCase =>
        /\ filteredResults = viewerResults
        /\ filteredResults = results
        /\ applyFiltersReturn = <<TRUE>>

\* ------------------------------------------------------ filtering, re-applied
\* A step that sets some toggle to the value it already has: updateFilter
\* then runs applyFilters under the criteria already in force
ReapplySameCriteria ==
    \E name \in CriteriaNames : updateFilter(name, filterCriteria[name])

\* C11: applying the criteria already in force once more (setting a toggle to
\* the value it has, which calls applyFilters again) leaves the filtered
\* sequence and the current position as they were.
C11_FilteringIsIdempotent ==
    [][ReapplySameCriteria =>
          /\ filteredResults' = filteredResults
          /\ currentIndex' = currentIndex]_vars

\* C11 witness: a filter is in force, both results of the session pass it
\* and the second one is current, so a re-application has a position to keep.
C11_Witness ==
    /\ filterCriteria.onlyDiscrepancies
    /\ Len(results) = 2
    /\ filteredResults = results
    /\ \A r \in SetOf(results) : HasDiscrepancyIsTrue(r)
    /\ currentIndex = 1

\* C12: whenever all five criteria are false (from the start, or after
\* clearFilters whatever the criteria were), the filtered view is the whole
\* session, in session order.
C12_NoCriteriaShowsAll ==
    filterCriteria = NoCriteria =>
        /\ filteredResults = results
        /\ filteredResults = viewerResults

\* C12 witness: no criterion is set and the view is a session of two
\* results of which only one has a discrepancy, so that any criterion would
\* have narrowed it.
C12_Witness ==
    /\ filterCriteria = NoCriteria
    /\ Len(results) = 2
    /\ filteredResults = results
    /\ HasDiscrepancyIsTrue(results[2])
    /\ ~HasDiscrepancyIsTrue(results[1])
    /\ currentIndex = 1

\* ------------------------------------------------------------------ navigation
\* The current position is a position of the (non-empty) filtered view
ValidPosition == currentIndex \in 0..(Len(filteredResults) - 1)

LastPosition == Len(filteredResults) - 1

\* C13: next at the last position and previous at position 0 leave the
\* position unchanged; at any other position of the view next adds exactly
\* one and previous subtracts exactly one.  (With an empty view, where there
\* is no position, both leave the position unchanged.)  Neither changes the
\* view.
C13_NextPreviousDoNotWrap ==
    [][/\ next =>
            currentIndex' = IF ValidPosition /\ currentIndex # LastPosition
                            THEN currentIndex + 1 ELSE currentIndex
       /\ previous =>
            currentIndex' = IF ValidPosition /\ currentIndex # 0
                            THEN currentIndex - 1 ELSE currentIndex
       /\ (next \/ previous) => filteredResults' = filteredResults]_vars

\* C13 witness: the last position of a view of two results, where next has
\* nowhere to go and previous has.
C13_Witness ==
    /\ Len(filteredResults) = 2
    /\ currentIndex = LastPosition
    /\ currentResult = <<filteredResults[2]>>
    /\ filteredResults[1] # filteredResults[2]

\* The positions (from 1) of the view's results whose index field is i
PositionsOfIndex(i) ==
    {p \in DOMAIN filteredResults :
        "index" \in DOMAIN filteredResults[p] /\ filteredResults[p].index = i}

\* C14: jumpTo(i) returns true iff some result of the filtered view has
\* index i; then the position becomes that of the first such result;
\* otherwise it returns false and position and view stay as they were.
\* Either way the view is not changed.
C14_JumpToReportsAndMoves ==
    [][\A i \in JumpIndices :
          jumpTo(i) =>
             /\ jumpToReturn' = <<PositionsOfIndex(i) # {}>>
             /\ PositionsOfIndex(i) # {} =>
                    /\ currentIndex' + 1 \in PositionsOfIndex(i)
                    /\ \A p \in PositionsOfIndex(i) : currentIndex' + 1 <= p
             /\ PositionsOfIndex(i) = {} => currentIndex' = currentIndex
             /\ filteredResults' = filteredResults]_vars

\* C14 witness: the last jumpTo failed although the session holds a result
\* with each index that can be asked for and lies in the view's range of
\* indices; the view is a proper part of the session.
C14_Witness ==
    /\ jumpToReturn = <<FALSE>>
    /\ Len(results) = 2 /\ Len(filteredResults) = 1
    /\ results[1].index = 1 /\ results[2].index = 2
    /\ filteredResults[1].index = 2
    /\ currentIndex = 0

\* ------------------------------------------------- position after a filter change
\* A step that changes the criteria through updateFilter or clearFilters
FilterChange ==
    \/ \E name \in CriteriaNames, enabled \in BOOLEAN : updateFilter(name, enabled)
    \/ clearFilters

\* A result satisfies every criterion set in c
SatisfiesUnder(r, c) ==
    /\ c.onlyDiscrepancies => HasDiscrepancyIsTrue(r)
    /\ c.mlVsPost => FlagIsTrue(r, "ml_vs_postprocessing")
    /\ c.postVsDb => FlagIsTrue(r, "postprocessing_vs_db")
    /\ c.missingInDb => FlagIsTrue(r, "missing_in_db")
    /\ c.extraInDb => FlagIsTrue(r, "extra_in_db")

\* The view the session should show under criteria c: the matching results,
\* or all of them when none matches
ViewUnder(c) ==
    LET ok(r) == SatisfiesUnder(r, c)
    IN IF SelectSeq(results, ok) = <<>> THEN results ELSE SelectSeq(results, ok)

\* C15: every change of the criteria re-evaluates the view, and the position
\* becomes 0 if it is out of bounds for the new view (negative, or not less
\* than its length) and is otherwise kept.
C15_PositionResetWhenOutOfBounds ==
    [][FilterChange =>
          /\ filteredResults' = ViewUnder(filterCriteria')
          /\ currentIndex' =
                IF currentIndex \in 0..(Len(filteredResults') - 1)
                THEN currentIndex ELSE 0]_vars

\* ------------------------------------------------------------------ statistics
\* The indices of the held results for which p holds
Recount(p(_)) == Cardinality({i \in DOMAIN results : p(results[i])})

HasMlVsPost(r) == FlagIsTrue(r, "ml_vs_postprocessing")
HasPostVsDb(r) == FlagIsTrue(r, "postprocessing_vs_db")
HasMissingInDb(r) == FlagIsTrue(r, "missing_in_db")
HasExtraInDb(r) == FlagIsTrue(r, "extra_in_db")
HasSomeFlag(r) == \E f \in FlagNames : FlagIsTrue(r, f)
AnyResult(r) == TRUE

\* C16: after any sequence of successful loads, failed loads and clear,
\* whatever the criteria and the position, getDiscrepancyStats equals a
\* recount over the held results: total is their number, withDiscrepancies
\* the number with at least one true flag, each category count the number
\* with that flag true.
C16_StatsEqualRecount ==
    getDiscrepancyStats =
        [total |-> Recount(AnyResult),
         withDiscrepancies |-> Recount(HasSomeFlag),
         mlVsPostprocessing |-> Recount(HasMlVsPost),
         postprocessingVsDb |-> Recount(HasPostVsDb),
         missingInDb |-> Recount(HasMissingInDb),
         extraInDb |-> Recount(HasExtraInDb)]

\* C16 witness: a load has failed half-way (the metadata is that of a
\* document whose results could not be parsed) over a held session of two
\* results, one of them with several flags, while a filter is set.
C16_Witness ==
    /\ loadError # null
    /\ sessionMetadata # null /\ sessionMetadata[1].sessionId = "session-e"
    /\ Len(results) = 2
    /\ getDiscrepancyStats.withDiscrepancies = 1
    /\ getDiscrepancyStats.missingInDb = 1
    /\ filterCriteria.onlyDiscrepancies

\* ----------------------------------------------------------------- failed loads
\* The document lacks session_id, or lacks a results array
LacksRequiredField(data) ==
    "session_id" \notin DOMAIN data \/ "results" \notin DOMAIN data

\* The error reported for a document that lacks a required field
RequiredFieldErrors ==
    {<<"JSON parsing error: Missing required field: session_id">>,
     <<"JSON parsing error: Missing or invalid results array">>}

\* C17: loading a document without session_id, without results, or with a
\* results value that is not an array fails with an error naming what is
\* missing, and installs nothing: the parser's metadata, results and count
\* and the viewer's results, view and position are as before the load.
C17_InvalidDocumentInstallsNothing ==
    [][\A data \in Documents :
          (LacksRequiredField(data) /\ loadJson(data)) =>
             /\ loadError' \in RequiredFieldErrors
             /\ jsonLoaded' = FALSE
             /\ UNCHANGED <<sessionMetadata, results, discrepancyCount,
                            viewerResults, filteredResults, currentIndex>>]_vars

\* C17 witness: the last load failed for want of a results array while a
\* session of two results is installed and its second result is current.
C17_Witness ==
    /\ loadError = <<"JSON parsing error: Missing or invalid results array">>
    /\ ~jsonLoaded
    /\ sessionMetadata # null /\ sessionMetadata[1].sessionId = "session-a"
    /\ Len(results) = 2 /\ viewerResults = results
    /\ discrepancyCount = 1
    /\ currentIndex = 1

\* ------------------------------------------------------------ failed stages
\* The block of the frame carries an error string
StageFailed(block) ==
    /\ block \in DOMAIN frameInput[1]
    /\ "error" \in DOMAIN frameInput[1][block]
    /\ frameInput[1][block].error # ""

\* The counts as the comparisons are to see them: 0 for a failed stage
ComparedInferenceCount ==
    IF StageFailed("ml_inference") THEN 0 ELSE InferenceCount
ComparedPostProcessedCount ==
    IF StageFailed("post_processed") THEN 0 ELSE PostProcessedCount

\* C18: classifying a frame whose inference or post-processed block is absent
\* or failed yields its records, and the count of an absent or failed stage
\* enters the Inference-vs-PostProcessing and PostProcessing-vs-DB
\* comparisons as 0, whatever count the failed block carries.
C18_FailedStageComparedAsZero ==
    Classified =>
        /\ InputFlag("ml_vs_postprocessing") => Records("ml-vs-post") # {}
        /\ InputFlag("postprocessing_vs_db") => Records("post-vs-db") # {}
        /\ \A d \in Records("ml-vs-post") :
              /\ d.description.args[1] = ComparedInferenceCount
              /\ d.severity = "info" <=>
                    ComparedInferenceCount > ComparedPostProcessedCount
              /\ d.severity = "error" <=>
                    ComparedInferenceCount < ComparedPostProcessedCount
        /\ \A d \in Records("post-vs-db") :
              d.description.args[1] = ComparedPostProcessedCount

\* -------------------------------------------------------- assembling a frame
\* The raw entry has the block; the assembled frame has it, not null
InputHas(field) == field \in DOMAIN frameInput[1]

\* C19: a frame is assembled only from an entry that has an index; an entry
\* with an index is assembled whichever optional blocks it lacks; a missing
\* inference or post-processed block becomes null, and a present block,
\* even one with no games, becomes a block with a games list.
C19_AssemblyFailsWithoutIndex ==
    /\ Classified => InputHas("index")
    /\ (frameInput # null /\ InputHas("index")) =>
          ~parseResultThrows(frameInput[1])
    /\ Classified =>
          /\ ~InputHas("ml_inference") <=> currentResult[1].mlInference = null
          /\ ~InputHas("post_processed") <=> currentResult[1].postProcessed = null
          /\ InputHas("ml_inference") =>
                Len(currentResult[1].mlInference[1].games)
                    = Len(InputBlockField("ml_inference", "games", <<>>))
          /\ InputHas("post_processed") =>
                Len(currentResult[1].postProcessed[1].games)
                    = Len(InputBlockField("post_processed", "games", <<>>))

\* --------------------------------------------------------- boolean defaults
\* The block of the entry is present and lacks the field
BlockLacks(block, field) ==
    InputHas(block) /\ field \notin DOMAIN frameInput[1][block]

\* The rows of db_sessions that lack matches_screenshot
RowsLackingMatches ==
    IF InputHas("db_sessions")
    THEN {i \in DOMAIN frameInput[1].db_sessions :
             "matches_screenshot" \notin DOMAIN frameInput[1].db_sessions[i]}
    ELSE {}

\* C20 as stated: an absent is_uniform_frame, an absent applied_threshold and
\* an absent matches_screenshot in any db_sessions row all parse to false.
C20_AbsentBooleansAreFalse ==
    Classified =>
        /\ BlockLacks("ml_inference", "is_uniform_frame") =>
              currentResult[1].mlInference[1].isUniformFrame = FALSE
        /\ BlockLacks("post_processed", "applied_threshold") =>
              currentResult[1].postProcessed[1].appliedThreshold = FALSE
        /\ \A i \in RowsLackingMatches :
              currentResult[1].dbSessions[i].matchesScreenshot = FALSE

\* C20 amended: an absent is_uniform_frame and an absent applied_threshold
\* parse to false; an absent matches_screenshot parses to true, and a row's
\* matchesScreenshot is false only where the document says false.
C20_AbsentBooleansDefault ==
    Classified =>
        /\ BlockLacks("ml_inference", "is_uniform_frame") =>
              currentResult[1].mlInference[1].isUniformFrame = FALSE
        /\ BlockLacks("post_processed", "applied_threshold") =>
              currentResult[1].postProcessed[1].appliedThreshold = FALSE
        /\ \A i \in RowsLackingMatches :
              currentResult[1].dbSessions[i].matchesScreenshot = TRUE
        /\ InputHas("db_sessions") =>
              \A i \in DOMAIN frameInput[1].db_sessions \ RowsLackingMatches :
                 currentResult[1].dbSessions[i].matchesScreenshot
                    = frameInput[1].db_sessions[i].matches_screenshot

\* C20 witness: a parsed frame whose inference and post-processed blocks
\* lack their boolean, with one db row lacking matches_screenshot next to
\* one that says false.
C20_Witness ==
    /\ Classified
    /\ BlockLacks("ml_inference", "is_uniform_frame")
    /\ BlockLacks("post_processed", "applied_threshold")
    /\ RowsLackingMatches = {1}
    /\ Len(currentResult[1].dbSessions) = 2
    /\ currentResult[1].dbSessions[1].matchesScreenshot
    /\ ~currentResult[1].dbSessions[2].matchesScreenshot

\* ------------------------------------------------------------------ export
\* The entries of the document the parser holds, as they were loaded
LoadedEntries ==
    IF analysisData = null THEN <<>> ELSE analysisData[1].results

\* A field of a block of a raw entry, or the default when either is absent
EntryField(entry, block, field, default) ==
    IF block \in DOMAIN entry /\ field \in DOMAIN entry[block]
    THEN entry[block][field] ELSE default

\* The flag of a raw entry is true
EntryFlag(entry, name) == EntryField(entry, "discrepancy_flags", name, FALSE)

\* The row the export is to carry for a raw entry
ExpectedRow(entry) ==
    <<IF "index" \in DOMAIN entry THEN ToString(entry.index) ELSE "",
      EntryField(entry, "screenshot", "timestamp", ""),
      ToString(EntryField(entry, "ml_inference", "number_of_games", 0)),
      ToString(EntryField(entry, "post_processed", "game_count", 0)),
      ToString(IF "db_sessions" \in DOMAIN entry
               THEN Len(entry.db_sessions) ELSE 0),
      IF EntryFlag(entry, "ml_vs_postprocessing") THEN "YES" ELSE "NO",
      IF EntryFlag(entry, "postprocessing_vs_db") THEN "YES" ELSE "NO",
      IF EntryFlag(entry, "missing_in_db") THEN "YES" ELSE "NO",
      IF EntryFlag(entry, "extra_in_db") THEN "YES" ELSE "NO">>

\* C21: whatever the filter criteria and the position, exportAsCSV has one
\* row per entry of the loaded document, in document order; the row carries
\* the entry's index, screenshot timestamp, inference count, post-processed
\* count and number of db sessions (0 for an absent block), and YES for a
\* flag exactly when the flag is true; the text is the header line followed
\* by the rows, comma-separated, one per line.
C21_CsvRowPerFrame ==
    /\ Len(CsvRows) = Len(LoadedEntries)
    /\ \A i \in DOMAIN CsvRows : CsvRows[i] = ExpectedRow(LoadedEntries[i])
    /\ exportAsCSV =
          Join(<<"Index,Timestamp,ML Games,Post-Processed Games,DB Sessions,ML vs Post,Post vs DB,Missing in DB,Extra in DB">>
                  \o [i \in DOMAIN LoadedEntries |->
                         Join(ExpectedRow(LoadedEntries[i]), ",")],
               "\n")

\* C21 witness: a session of two frames is filtered down to its first
\* frame, which has a timestamp, no blocks and one flag false; the export
\* still carries the row of the second frame, which has no index.
C21_Witness ==
    /\ Len(results) = 2 /\ Len(filteredResults) = 1
    /\ filterCriteria.onlyDiscrepancies
    /\ filteredResults[1] = results[1]
    /\ CsvRows[1] = <<"7", "2024-01-05T10:00:00Z", "0", "0", "0",
                      "YES", "NO", "NO", "NO">>
    /\ CsvRows[2] = <<"", "2024-01-05T10:00:05Z", "0", "0", "1",
                      "NO", "NO", "NO", "NO">>

\* ------------------------------------------------------------ frame effects
\* A filter or navigation operation of the viewer
FilterOrNavigation ==
    \/ \E name \in CriteriaNames, enabled \in BOOLEAN : updateFilter(name, enabled)
    \/ clearFilters
    \/ next
    \/ previous
    \/ first
    \/ last
    \/ \E index \in JumpIndices : jumpTo(index)
    \/ \E position \in 0..(MaxResults + 1) : timelineClick(position)

\* C22: no filter or navigation operation, with the classification it
\* triggers, changes the session's results (the parser's or the viewer's
\* copy, and so no field of any frame), and the filtered view only contains
\* frames of the session.
C22_SessionIsNeverMutated ==
    /\ [][FilterOrNavigation => UNCHANGED <<results, viewerResults>>]_vars
    /\ [](SetOf(filteredResults) \subseteq SetOf(viewerResults))

\* C22 witness: a session of two frames is narrowed to one frame, which has
\* been classified, and the session still holds both frames.
C22_Witness ==
    /\ Len(viewerResults) = 2 /\ viewerResults = results
    /\ Len(filteredResults) = 1
    /\ filterCriteria # NoCriteria
    /\ currentResult = <<filteredResults[1]>>
    /\ Len(discrepancies) > 0

\* ------------------------------------------------- flags against comparisons
\* C23: the stored flags agree with the classifier's own comparison: a
\* MissingInDatabase record has at least one missing game, an
\* ExtraInDatabase record has at least one extra session, and a
\* PostProcessing-vs-Database record compares two counts that differ.
C23_FlagsAgreeWithComparison ==
    Classified =>
        /\ \A d \in Records("missing-in-db") : Len(d.details.missingGames) > 0
        /\ \A d \in Records("extra-in-db") : Len(d.details.extraSessions) > 0
        /\ \A d \in Records("post-vs-db") :
              d.description.args[1] # d.description.args[2]

\* -------------------------------------------------------- position in range
\* C24: in every reachable state, before a load and after loading an empty
\* session included, the position is not negative, and it is below the
\* length of the filtered view whenever the view is not empty.
C24_PositionWithinView ==
    /\ currentIndex >= 0
    /\ Len(filteredResults) > 0 => currentIndex < Len(filteredResults)

\* ---------------------------------------------------------- pending displays
\* The result at the current position of the filtered view, if there is one
HasCurrent == (currentIndex + 1) \in DOMAIN filteredResults
Current == filteredResults[currentIndex + 1]

\* C25: once every pending call of displayCurrent has completed, the
\* comparison panel and the discrepancy alert show the result at the
\* current position of the filtered view, whatever was navigated or
\* filtered while screenshots were awaited.
C25_SettledDisplayShowsCurrent ==
    (pendingDisplays = <<>> /\ HasCurrent) =>
        /\ currentResult = <<Current>>
        /\ discrepancies = analyzeResult(Current)

\* ------------------------------------------------------ screenshot failures
\* The fetch or the decoding of the screenshot of a pending display fails
ScreenshotFailure(i) == displayFetchFailed(i) \/ displayImageFailed(i)

\* A handler of the viewer that reaches displayCurrent
DisplayCall ==
    \/ \E data \in ImageDocuments : loadJson(data) /\ loadError' = null
    \/ \E enabled \in BOOLEAN : updateFilter("onlyDiscrepancies", enabled)
    \/ next /\ currentIndex' # currentIndex
    \/ previous /\ currentIndex' # currentIndex
    \/ last

\* C27: when the fetch or the decoding of a screenshot fails, the result of
\* that display and its discrepancies are still shown, the canvas shows the
\* error, and the session, the view, the criteria and the position are what
\* they were, so that later operations act as after a success; a result
\* without a screenshot is shown at once with the placeholder, and no fetch
\* is started for it.
C27_ScreenshotFailureIsLocal ==
    /\ [][\A i \in 1..MaxPending :
            (i \in DOMAIN pendingDisplays /\ ScreenshotFailure(i)) =>
               /\ currentResult' = <<pendingDisplays[i].result>>
               /\ discrepancies' = analyzeResult(pendingDisplays[i].result)
               /\ canvas'.shows = "Error loading screenshot"
               /\ Len(pendingDisplays') = Len(pendingDisplays) - 1
               /\ UNCHANGED <<parserVars, viewerVars, appVars, imageVars>>]_vars
    /\ [][(HasCurrent' /\ ~HasS3Key(Current') /\ DisplayCall) =>
               /\ currentResult' = <<Current'>>
               /\ discrepancies' = analyzeResult(Current')
               /\ canvas'.shows = "No screenshot available"
               /\ UNCHANGED <<pendingDisplays, imageVars>>]_vars

\* C27 witness: the screenshot of the second frame could not be loaded;
\* the frame and its discrepancies are shown, the canvas shows the error,
\* and the position is still on it.
C27_Witness ==
    /\ canvas.shows = "Error loading screenshot"
    /\ pendingDisplays = <<>>
    /\ currentIndex = 1 /\ HasCurrent /\ HasS3Key(Current)
    /\ currentResult = <<Current>>
    /\ Len(discrepancies) = 2

\* ------------------------------------------------------ failed loads, whole
\* C26: a load that fails, whether for a missing required field or for a
\* malformed entry of results, leaves the installed session as it was: the
\* parser's metadata, results and count and the viewer's results, view and
\* position; so the metadata always belongs to the document of the results.
C26_FailedLoadLeavesSession ==
    /\ [][\A data \in ParserDocuments :
            (loadJson(data) /\ validateAndParseError(data) # null) =>
               UNCHANGED <<sessionMetadata, results, discrepancyCount,
                           viewerResults, filteredResults, currentIndex>>]_vars
    /\ [](sessionMetadata # null =>
             /\ analysisData # null
             /\ sessionMetadata[1].sessionId = analysisData[1].session_id)

\* ------------------------------------------------------- view and session
\* C28: after any loads, filter changes and navigation the viewer's session
\* is the parser's, the filtered view is the results matching every
\* criterion that is set, or the whole session when none matches, and the
\* view is empty exactly when the session is.
C28_ViewConsistentWithCriteria ==
    /\ viewerResults = results
    /\ filteredResults = ViewUnder(filterCriteria)
    /\ filteredResults = <<>> <=> viewerResults = <<>>

\* C28 witness: extraInDb is set, none of the two results of the session
\* has that flag, and the view is the whole session, the second result
\* being current.
C28_Witness ==
    /\ filterCriteria.extraInDb
    /\ Len(results) = 2
    /\ \A i \in DOMAIN results : ~FlagIsTrue(results[i], "extra_in_db")
    /\ filteredResults = results
    /\ currentIndex = 1

\* ----------------------------------------------------------- a new session
\* The view of a result sequence under criteria c
ViewOf(rs, c) ==
    LET ok(r) == SatisfiesUnder(r, c)
    IN IF SelectSeq(rs, ok) = <<>> THEN rs ELSE SelectSeq(rs, ok)

\* The frames of a document, assembled one by one
FramesOf(data) == [i \in DOMAIN data.results |-> parseResult(data.results[i])]

\* C29: a successful load replaces the parser's and the viewer's results by
\* the frames of the new document, keeps the filter criteria, makes the
\* view the new session's view under those criteria, and puts the position
\* at 0.
C29_LoadReplacesSession ==
    [][\A data \in ParserDocuments :
          (validateAndParseError(data) = null /\ analysisData' = <<data>>
              /\ loadJson(data)) =>
             /\ results' = FramesOf(data)
             /\ viewerResults' = FramesOf(data)
             /\ filterCriteria' = filterCriteria
             /\ filteredResults' = ViewOf(FramesOf(data), filterCriteria)
             /\ currentIndex' = 0
             /\ jsonLoaded']_vars

\* C29 witness: a session is loaded while onlyDiscrepancies is set; the
\* view is the one result of its two that has a discrepancy, at position 0.
C29_Witness ==
    /\ jsonLoaded
    /\ filterCriteria.onlyDiscrepancies
    /\ Len(results) = 2 /\ Len(filteredResults) = 1
    /\ currentIndex = 0
    /\ currentResult = <<filteredResults[1]>>
    /\ discrepancyCount = 1

\* -------------------------------------------------------------- image cache
\* C30: under any interleaving of fetchImage calls and clearCache, every
\* blob URL created and not revoked is held in the cache, so that clearCache
\* leaves none alive; a fetch that fails leaves the cache unchanged; and a
\* call for a cached key returns the cached URL without a network fetch.
C30_LiveUrlsAreCached ==
    /\ [](liveUrls \subseteq CachedUrls)
    /\ [][clearCache => liveUrls' = {}]_vars
    /\ [][\A i \in 1..MaxFetches :
            (i \in DOMAIN fetches /\ fetchFailed(i)) => UNCHANGED imageCache]_vars
    /\ [][\A key \in ImageKeys :
            (key \in DOMAIN imageCache /\ fetchImage(key)) =>
               /\ fetchReturn' = [url |-> imageCache[key]]
               /\ UNCHANGED <<fetches, imageCache, liveUrls, urlCount>>]_vars

====
